---- MODULE Spec2Model ----
(***************************************************************************)
(* reptool: the "merge" command of src/main.ts as a state machine.         *)
(*                                                                         *)
(* Text is a sequence of one-character strings.  A directory is a sequence *)
(* of entries in listing order.  One run of main() is a walk of pc from    *)
(* "main" to "exit"; a later run starts from the directory the earlier     *)
(* run left behind.                                                        *)
(***************************************************************************)
EXTENDS Integers, Sequences, FiniteSets, TLC

(***************************************************************************)
(* Bounds of the model.                                                    *)
(***************************************************************************)
\* reports in a directory of the date family
MaxFiles == 4
\* characters in the raw data text of the row family
MaxLen == 3
\* columns in a header of the header family
MaxCols == 2

(***************************************************************************)
(* Characters and program constants.                                       *)
(***************************************************************************)
COMMA == ","
QUOTE == "\""
NL == "\n"

OUTFILE == <<"M", "E", "R", "G", "E", "D", ".", "c", "s", "v">>
checkInDateHeader == <<"C", "h", "e", "c", "k", "-", "I", "n", " ", "D", "a", "t", "e">>
CSVEXT == <<".", "c", "s", "v">>

(***************************************************************************)
(* Text helpers: String.prototype.split / includes / indexOf / join.       *)
(***************************************************************************)
RECURSIVE SplitFrom(_, _, _, _)
SplitFrom(s, sep, i, field) ==
  IF i > Len(s) THEN <<field>>
  ELSE IF s[i] = sep THEN <<field>> \o SplitFrom(s, sep, i + 1, <<>>)
  ELSE SplitFrom(s, sep, i + 1, Append(field, s[i]))

\* s.split(sep) for a one-character separator
Split(s, sep) == SplitFrom(s, sep, 1, <<>>)

\* s.includes(sub)
Includes(s, sub) ==
  \E i \in 0..(Len(s) - Len(sub)) : SubSeq(s, i + 1, i + Len(sub)) = sub

\* array.includes(x)
ArrayIncludes(arr, x) == \E i \in 1..Len(arr) : arr[i] = x

\* array.indexOf(x): the first 0-based index, -1 when absent
IndexOf(arr, x) ==
  IF ArrayIncludes(arr, x)
  THEN (CHOOSE i \in 1..Len(arr) : arr[i] = x /\ \A j \in 1..(i - 1) : arr[j] # x) - 1
  ELSE -1

RECURSIVE Join(_, _)
\* array.join(sep)
Join(arr, sep) ==
  IF Len(arr) = 0 THEN <<>>
  ELSE IF Len(arr) = 1 THEN arr[1]
  ELSE arr[1] \o <<sep>> \o Join(Tail(arr), sep)

(***************************************************************************)
(* splitCSVLine (main.ts 82-112): the quote-aware field splitter.          *)
(***************************************************************************)
RECURSIVE splitCSVLoop(_, _, _, _, _)
splitCSVLoop(line, i, field, inQuotes, result) ==
  IF i > Len(line) THEN Append(result, field)
  ELSE LET char == line[i]
           nextIsQuote == i + 1 <= Len(line) /\ line[i + 1] = QUOTE
       IN IF char = QUOTE /\ inQuotes /\ nextIsQuote
          THEN splitCSVLoop(line, i + 2, Append(field, QUOTE), inQuotes, result)
          ELSE IF char = QUOTE
          THEN splitCSVLoop(line, i + 1, field, ~inQuotes, result)
          ELSE IF char = COMMA /\ ~inQuotes
          THEN splitCSVLoop(line, i + 1, <<>>, inQuotes, Append(result, field))
          ELSE splitCSVLoop(line, i + 1, Append(field, char), inQuotes, result)

splitCSVLine(line) == splitCSVLoop(line, 1, <<>>, FALSE, <<>>)

(***************************************************************************)
(* The runtime's date parser, new Date(s).getTime() (main.ts 144-145),     *)
(* over the model's alphabet: a text made of exactly one digit is a date   *)
(* and a larger digit is a later date; every other text, the empty text    *)
(* included, is an invalid date whose time is NaN.                         *)
(***************************************************************************)
NaN == -1
DIGITS == {"1", "2", "3"}

DigitValue(c) == CASE c = "1" -> 1 [] c = "2" -> 2 [] c = "3" -> 3

DateTime(s) == IF Len(s) = 1 /\ s[1] \in DIGITS THEN DigitValue(s[1]) ELSE NaN

isNaN(t) == t = NaN

\* s.replace(/"/g, "")
RemoveQuotes(s) == SelectSeq(s, LAMBDA c : c # QUOTE)

(***************************************************************************)
(* The comparator of sortReportsByDate (main.ts 119-155).  A result is     *)
(* either a number (order) or a raised TypeError (thrown).                 *)
(***************************************************************************)
Returned(n) == [thrown |-> FALSE, order |-> n]
Thrown == [thrown |-> TRUE, order |-> 0]

\* deliberately wrong variant: the dates are compared the other way round (timeA - timeB)
compareReportsAscending(a, b, dateHeader) ==
  LET linesA == Split(a.data, NL)
      linesB == Split(b.data, NL)
      dataA == Tail(linesA)
      dataB == Tail(linesB)
  IN  IF Len(dataA) = 0 \/ Len(dataB) = 0 THEN Thrown
      ELSE
        LET fieldsA == splitCSVLine(dataA[1])
            fieldsB == splitCSVLine(dataB[1])
            locationA == IndexOf(Split(Head(linesA), COMMA), dateHeader)
            locationB == IndexOf(Split(Head(linesB), COMMA), dateHeader)
        IN  IF locationA = -1 \/ locationB = -1 THEN Returned(0)
            ELSE IF locationA >= Len(fieldsA) \/ locationB >= Len(fieldsB) THEN Thrown
            ELSE
              LET timeA == DateTime(RemoveQuotes(fieldsA[locationA + 1]))
                  timeB == DateTime(RemoveQuotes(fieldsB[locationB + 1]))
              IN  IF isNaN(timeA) \/ isNaN(timeB) THEN Returned(0)
                  ELSE Returned(timeA - timeB)

compareReports(a, b, dateHeader) ==
  LET linesA == Split(a.data, NL)
      linesB == Split(b.data, NL)
      headerAFields == Split(Head(linesA), COMMA)
      headerBFields == Split(Head(linesB), COMMA)
      dataA == Tail(linesA)
      dataB == Tail(linesB)
  IN  \* splitCSVLine(undefined) reads undefined.length
      IF Len(dataA) = 0 \/ Len(dataB) = 0 THEN Thrown
      ELSE
        LET dataAFirstRecordFields == splitCSVLine(dataA[1])
            dataBFirstRecordFields == splitCSVLine(dataB[1])
            locationA == IndexOf(headerAFields, dateHeader)
            locationB == IndexOf(headerBFields, dateHeader)
        IN  IF locationA = -1 \/ locationB = -1 THEN Returned(0)
            \* undefined.replace(...)
            ELSE IF locationA >= Len(dataAFirstRecordFields)
                    \/ locationB >= Len(dataBFirstRecordFields) THEN Thrown
            ELSE
              LET timeA == DateTime(RemoveQuotes(dataAFirstRecordFields[locationA + 1]))
                  timeB == DateTime(RemoveQuotes(dataBFirstRecordFields[locationB + 1]))
              IN  IF isNaN(timeA) \/ isNaN(timeB) THEN Returned(0)
                  ELSE Returned(timeB - timeA)

(***************************************************************************)
(* Array.prototype.sort as the runtime (V8) runs it on an array shorter    *)
(* than 64 elements: one run is counted (and reversed when strictly        *)
(* descending), the rest is inserted by binary insertion.  A comparator    *)
(* that throws ends the sort.                                              *)
(***************************************************************************)
Reverse(arr) == [i \in 1..Len(arr) |-> arr[Len(arr) + 1 - i]]

RECURSIVE RunLength(_, _, _, _)
\* the end of the run that starts at arr[1], arr[2]; idx is the next element
RunLength(arr, idx, isDescending, dateHeader) ==
  IF idx > Len(arr) THEN [thrown |-> FALSE, length |-> idx - 1]
  ELSE LET c == compareReports(arr[idx], arr[idx - 1], dateHeader)
       IN  IF c.thrown THEN [thrown |-> TRUE, length |-> 0]
           ELSE IF isDescending /\ c.order >= 0 THEN [thrown |-> FALSE, length |-> idx - 1]
           ELSE IF ~isDescending /\ c.order < 0 THEN [thrown |-> FALSE, length |-> idx - 1]
           ELSE RunLength(arr, idx + 1, isDescending, dateHeader)

CountAndMakeRun(arr, dateHeader) ==
  LET first == compareReports(arr[2], arr[1], dateHeader)
      isDescending == first.order < 0
      run == RunLength(arr, 3, isDescending, dateHeader)
  IN  IF first.thrown \/ run.thrown THEN [thrown |-> TRUE, arr |-> arr, length |-> 0]
      ELSE [thrown |-> FALSE,
            arr |-> IF isDescending
                    THEN Reverse(SubSeq(arr, 1, run.length))
                         \o SubSeq(arr, run.length + 1, Len(arr))
                    ELSE arr,
            length |-> run.length]

RECURSIVE BinarySearch(_, _, _, _, _)
RECURSIVE BinarySearchBeforeEqual(_, _, _, _, _)
\* deliberately wrong variant: a pivot that compares equal goes before the element, not after it
BinarySearchBeforeEqual(arr, pivot, left, right, dateHeader) ==
  IF left >= right THEN [thrown |-> FALSE, left |-> left]
  ELSE LET mid == left + ((right - left) \div 2)
           c == compareReports(pivot, arr[mid + 1], dateHeader)
       IN  IF c.thrown THEN [thrown |-> TRUE, left |-> 0]
           ELSE IF c.order <= 0
                THEN BinarySearchBeforeEqual(arr, pivot, left, mid, dateHeader)
           ELSE BinarySearchBeforeEqual(arr, pivot, mid + 1, right, dateHeader)

\* left and right are 0-based, as in the runtime: the pivot goes to index left
BinarySearch(arr, pivot, left, right, dateHeader) ==
  IF left >= right THEN [thrown |-> FALSE, left |-> left]
  ELSE LET mid == left + ((right - left) \div 2)
           c == compareReports(pivot, arr[mid + 1], dateHeader)
       IN  IF c.thrown THEN [thrown |-> TRUE, left |-> 0]
           ELSE IF c.order < 0 THEN BinarySearch(arr, pivot, left, mid, dateHeader)
           ELSE BinarySearch(arr, pivot, mid + 1, right, dateHeader)

RECURSIVE BinaryInsertionSort(_, _, _)
\* arr[1..start] is sorted; start is the 0-based index of the next pivot
BinaryInsertionSort(arr, start, dateHeader) ==
  IF start >= Len(arr) THEN [thrown |-> FALSE, arr |-> arr]
  ELSE LET pivot == arr[start + 1]
           pos == BinarySearch(arr, pivot, 0, start, dateHeader)
       IN  IF pos.thrown THEN [thrown |-> TRUE, arr |-> arr]
           ELSE BinaryInsertionSort(
                  SubSeq(arr, 1, pos.left) \o <<pivot>>
                    \o SubSeq(arr, pos.left + 1, start)
                    \o SubSeq(arr, start + 2, Len(arr)),
                  start + 1, dateHeader)

ArraySort(arr, dateHeader) ==
  IF Len(arr) < 2 THEN [thrown |-> FALSE, arr |-> arr]
  ELSE LET run == CountAndMakeRun(arr, dateHeader)
       IN  IF run.thrown THEN [thrown |-> TRUE, arr |-> arr]
           ELSE BinaryInsertionSort(run.arr, run.length, dateHeader)

\* sortReportsByDate (main.ts 115-156)
sortReportsByDate(inputReports, dateHeader) == ArraySort(inputReports, dateHeader)

(***************************************************************************)
(* populateMergedReport (main.ts 159-213).                                 *)
(***************************************************************************)
\* deliberately wrong variant: a name is mapped to its column in the reference header
TranslationMapByPosition(inputHeaderRecordFields, derivedFields) ==
  [name \in {derivedFields[k] : k \in {j \in 1..Len(derivedFields) :
                 IndexOf(inputHeaderRecordFields, derivedFields[j]) # -1}}
     |-> IndexOf(derivedFields, name)]

\* deliberately wrong variant: a name is mapped to the last column of that name
TranslationMapLastColumn(inputHeaderRecordFields, derivedFields) ==
  [name \in {derivedFields[k] : k \in {j \in 1..Len(derivedFields) :
                 IndexOf(inputHeaderRecordFields, derivedFields[j]) # -1}}
     |-> (CHOOSE i \in 1..Len(inputHeaderRecordFields) :
            /\ inputHeaderRecordFields[i] = name
            /\ \A j \in (i + 1)..Len(inputHeaderRecordFields) :
                 inputHeaderRecordFields[j] # name) - 1]

\* the Map built at main.ts 171-179: reference name -> 0-based source column
TranslationMap(inputHeaderRecordFields, derivedFields) ==
  [name \in {derivedFields[k] : k \in {j \in 1..Len(derivedFields) :
                 IndexOf(inputHeaderRecordFields, derivedFields[j]) # -1}}
     |-> IndexOf(inputHeaderRecordFields, name)]

\* deliberately wrong variant: a field is quoted when it holds a double quote, not a comma
QuoteFieldOnQuote(field) ==
  IF ArrayIncludes(field, QUOTE) THEN <<QUOTE>> \o field \o <<QUOTE>> ELSE field

\* deliberately wrong variant: a field is written as it is, also when it holds a comma
QuoteFieldNever(field) == field

\* main.ts 192-196: the text written for a mapped column
QuoteField(field) ==
  IF ArrayIncludes(field, COMMA) THEN <<QUOTE>> \o field \o <<QUOTE>> ELSE field

RECURSIVE TranslateFieldsMissingAsEmpty(_, _, _, _, _)
\* deliberately wrong variant: a column the row does not have is written as an empty field
TranslateFieldsMissingAsEmpty(inputDataRecordFields, map, derivedFields, k, newRecord) ==
  IF k > Len(derivedFields) THEN [thrown |-> FALSE, record |-> newRecord]
  ELSE IF derivedFields[k] \in DOMAIN map /\ map[derivedFields[k]] < Len(inputDataRecordFields)
  THEN TranslateFieldsMissingAsEmpty(inputDataRecordFields, map, derivedFields, k + 1,
         newRecord \o QuoteField(inputDataRecordFields[map[derivedFields[k]] + 1])
           \o <<COMMA>>)
  ELSE TranslateFieldsMissingAsEmpty(inputDataRecordFields, map, derivedFields, k + 1,
         newRecord \o <<COMMA>>)

RECURSIVE TranslateFields(_, _, _, _, _)
\* main.ts 189-200: the inner forEach over the reference fields, from field k
TranslateFields(inputDataRecordFields, map, derivedFields, k, newRecord) ==
  IF k > Len(derivedFields) THEN [thrown |-> FALSE, record |-> newRecord]
  ELSE IF derivedFields[k] \in DOMAIN map
  THEN LET loc == map[derivedFields[k]]
       IN  \* undefined.includes(",")
           IF loc >= Len(inputDataRecordFields) THEN [thrown |-> TRUE, record |-> newRecord]
           ELSE TranslateFields(inputDataRecordFields, map, derivedFields, k + 1,
                  newRecord \o QuoteField(inputDataRecordFields[loc + 1]) \o <<COMMA>>)
  ELSE TranslateFields(inputDataRecordFields, map, derivedFields, k + 1,
         newRecord \o <<COMMA>>)

RECURSIVE TranslateRecords(_, _, _, _, _)
RECURSIVE TranslateRecordsUnshift(_, _, _, _, _)
\* deliberately wrong variant: a record is put right after the header line, before the earlier ones
TranslateRecordsUnshift(inputDataRecords, map, derivedFields, r, merged) ==
  IF r > Len(inputDataRecords) THEN [thrown |-> FALSE, merged |-> merged]
  ELSE IF inputDataRecords[r] # <<>>
  THEN LET rec == TranslateFields(splitCSVLine(inputDataRecords[r]), map,
                                  derivedFields, 1, <<>>)
       IN  IF rec.thrown THEN [thrown |-> TRUE, merged |-> merged]
           ELSE TranslateRecordsUnshift(inputDataRecords, map, derivedFields, r + 1,
                                        <<Head(merged), rec.record>> \o Tail(merged))
  ELSE TranslateRecordsUnshift(inputDataRecords, map, derivedFields, r + 1, merged)

RECURSIVE TranslateRecordsKeepEmpty(_, _, _, _, _)
\* deliberately wrong variant: an empty data line is translated like any other
TranslateRecordsKeepEmpty(inputDataRecords, map, derivedFields, r, merged) ==
  IF r > Len(inputDataRecords) THEN [thrown |-> FALSE, merged |-> merged]
  ELSE LET rec == TranslateFields(splitCSVLine(inputDataRecords[r]), map,
                                  derivedFields, 1, <<>>)
       IN  IF rec.thrown THEN [thrown |-> TRUE, merged |-> merged]
           ELSE TranslateRecordsKeepEmpty(inputDataRecords, map, derivedFields, r + 1,
                                          Append(merged, rec.record))

\* main.ts 183-205: the forEach over a report's data records, from record r
TranslateRecords(inputDataRecords, map, derivedFields, r, merged) ==
  IF r > Len(inputDataRecords) THEN [thrown |-> FALSE, merged |-> merged]
  ELSE IF inputDataRecords[r] # <<>>
  THEN LET rec == TranslateFields(splitCSVLine(inputDataRecords[r]), map,
                                  derivedFields, 1, <<>>)
       IN  IF rec.thrown THEN [thrown |-> TRUE, merged |-> merged]
           ELSE TranslateRecords(inputDataRecords, map, derivedFields, r + 1,
                                 Append(merged, rec.record))
  ELSE TranslateRecords(inputDataRecords, map, derivedFields, r + 1, merged)

RECURSIVE PopulateFrom(_, _, _, _)
\* main.ts 164-210: the forEach over the reports, from report i
PopulateFrom(reports, derivedFields, i, merged) ==
  IF i > Len(reports) THEN [thrown |-> FALSE, merged |-> merged]
  ELSE LET inputReportRecords == Split(reports[i].data, NL)
           inputHeaderRecordFields == Split(Head(inputReportRecords), COMMA)
           inputDataRecords == Tail(inputReportRecords)
           map == TranslationMap(inputHeaderRecordFields, derivedFields)
           out == TranslateRecords(inputDataRecords, map, derivedFields, 1, merged)
       IN  IF out.thrown THEN [thrown |-> TRUE, merged |-> out.merged]
           ELSE PopulateFrom(reports, derivedFields, i + 1, out.merged)

populateMergedReport(reports, derivedFields, merged) ==
  PopulateFrom(reports, derivedFields, 1, merged)

(***************************************************************************)
(* The state of the program and of the directory it works on.              *)
(***************************************************************************)
VARIABLES
  dir,                     \* the target directory: entries in listing order
  pc,                      \* where the run is
  args,                    \* Deno.args as [cmd, target]; "" is a missing argument
  inputFileList,           \* main.ts 231
  reads,                   \* the state of each readTextFile promise (main.ts 258-260)
  inputReports,            \* main.ts 226
  derivedReferenceHeader,  \* main.ts 276
  mergedReport,            \* main.ts 225
  exitCode,                \* the exit status of the run, once pc = "exit"
  effects,                 \* what the run has done so far: usage text, listing, reads, write
  lastMerge,               \* history: what the last run that wrote OUTFILE had selected
  parser,                  \* a call of splitCSVLine taken alone: its locals (main.ts 83-89)
  settled                  \* history: the reads in the order they were fulfilled, where noted

vars == <<dir, pc, args, inputFileList, reads, inputReports,
          derivedReferenceHeader, mergedReport, exitCode, effects, lastMerge, parser,
          settled>>

\* isCMD (main.ts 9-15)
CMDLIST == {"merge"}
isCMD(value) == value \in CMDLIST

\* the paths a run may be given: a directory, a regular file, nothing
TARGETDIR == "reports"
TARGETFILE == "notes"
\* Deno.stat(target).isDirectory (main.ts 72-75)
IsDirectory(target) == target = TARGETDIR
NoArgs == [cmd |-> "", target |-> ""]
ArgChoices == [cmd : {"", "merge", "purge"}, target : {"", TARGETDIR, TARGETFILE}]

\* deliberately wrong variant: the run ends, and its exit status is 0
FailWithStatusZero == pc' = "exit" /\ exitCode' = 0

\* Deno.exit(1), directly or from the catch of main (main.ts 326-332)
Fail == pc' = "exit" /\ exitCode' = 1

\* no call of splitCSVLine is looked at on its own
NoCall == [line |-> <<>>, i |-> 0, field |-> <<>>, inQuotes |-> FALSE,
           result |-> <<>>, returned |-> FALSE, separators |-> 0]

\* nothing printed by handleUsage, no readDirSync, no readTextFile, no writeTextFile
NoEffects == [usage |-> FALSE, listed |-> FALSE, read |-> FALSE, write |-> "none"]
\* handleUsage (main.ts 24-45)
handleUsage == effects' = [effects EXCEPT !.usage = TRUE]

(***************************************************************************)
(* main -> processArgs (main.ts 48-63, 320-332).                           *)
(***************************************************************************)
ProcessArgs ==
  /\ pc = "main"
  /\ UNCHANGED <<parser, settled>>
  /\ \E a \in ArgChoices :
       /\ args' = a
       /\ IF a.cmd = "" \/ ~isCMD(a.cmd) THEN handleUsage /\ Fail
          ELSE pc' = "executeCommand" /\ UNCHANGED <<exitCode, effects>>
  /\ UNCHANGED <<dir, inputFileList, reads, inputReports,
                 derivedReferenceHeader, mergedReport, lastMerge>>

(***************************************************************************)
(* executeCommand (main.ts 307-317).                                       *)
(***************************************************************************)
ExecuteCommand ==
  /\ pc = "executeCommand"
  /\ UNCHANGED <<parser, settled>>
  /\ IF args.cmd = "merge" THEN pc' = "cmdMerge" /\ UNCHANGED <<exitCode, effects>>
     ELSE handleUsage /\ Fail
  /\ UNCHANGED <<dir, args, inputFileList, reads, inputReports,
                 derivedReferenceHeader, mergedReport, lastMerge>>

(***************************************************************************)
(* cmdMerge: the target checks (main.ts 216-223, targetIs 66-79).          *)
(***************************************************************************)
\* deliberately wrong variant: a missing target is only found not to be a directory
CheckTargetWithoutUsage ==
  /\ pc = "cmdMerge"
  /\ UNCHANGED <<parser, settled>>
  /\ IF ~IsDirectory(args.target) THEN Fail /\ UNCHANGED effects
     ELSE pc' = "list" /\ UNCHANGED <<exitCode, effects>>
  /\ UNCHANGED <<dir, args, inputFileList, reads, inputReports,
                 derivedReferenceHeader, mergedReport, lastMerge>>

CheckTarget ==
  /\ pc = "cmdMerge"
  /\ UNCHANGED <<parser, settled>>
  /\ IF args.target = "" THEN handleUsage /\ Fail
     ELSE IF ~IsDirectory(args.target) THEN Fail /\ UNCHANGED effects
     ELSE pc' = "list" /\ UNCHANGED <<exitCode, effects>>
  /\ UNCHANGED <<dir, args, inputFileList, reads, inputReports,
                 derivedReferenceHeader, mergedReport, lastMerge>>

(***************************************************************************)
(* cmdMerge: the input file list (main.ts 225-253).                        *)
(***************************************************************************)
\* deliberately wrong variant: the output file is not left out
IsInputFileAnyCsv(entry) == entry.isFile /\ Includes(entry.name, CSVEXT)

\* the filter of main.ts 232-235
IsInputFile(entry) ==
  entry.isFile /\ Includes(entry.name, CSVEXT) /\ ~Includes(entry.name, OUTFILE)

FileNames(entries) == [i \in 1..Len(entries) |-> entries[i].name]

ListDir ==
  /\ pc = "list"
  /\ UNCHANGED <<parser, settled>>
  /\ mergedReport' = <<>>
  /\ inputReports' = <<>>
  /\ \E listed \in BOOLEAN :
       IF ~listed
       THEN /\ Fail
            /\ effects' = [effects EXCEPT !.listed = TRUE]
            /\ UNCHANGED <<inputFileList, reads>>
       ELSE /\ inputFileList' = FileNames(SelectSeq(dir, IsInputFile))
            /\ IF Len(inputFileList') = 0
               THEN /\ Fail
                    /\ effects' = [effects EXCEPT !.listed = TRUE, !.usage = TRUE]
                    /\ UNCHANGED reads
               ELSE /\ pc' = "read"
                    /\ reads' = [i \in 1..Len(inputFileList') |-> "pending"]
                    /\ effects' = [effects EXCEPT !.listed = TRUE, !.read = TRUE]
                    /\ UNCHANGED exitCode
  /\ UNCHANGED <<dir, args, derivedReferenceHeader, lastMerge>>

(***************************************************************************)
(* cmdMerge: the parallel reads and the header filter (main.ts 256-269).   *)
(***************************************************************************)
\* one readTextFile is fulfilled
ReadFulfilled ==
  /\ pc = "read"
  /\ UNCHANGED <<parser, settled>>
  /\ \E i \in 1..Len(reads) :
       /\ reads[i] = "pending"
       /\ reads' = [reads EXCEPT ![i] = "fulfilled"]
  /\ UNCHANGED <<dir, pc, args, inputFileList, inputReports,
                 derivedReferenceHeader, mergedReport, exitCode, effects, lastMerge>>

\* deliberately wrong variant: a rejected read is noted and the run waits on
ReadRejectedIgnored ==
  /\ pc = "read"
  /\ UNCHANGED <<parser, settled>>
  /\ \E i \in 1..Len(reads) :
       /\ reads[i] = "pending"
       /\ reads' = [reads EXCEPT ![i] = "rejected"]
  /\ UNCHANGED <<dir, pc, args, inputFileList, inputReports,
                 derivedReferenceHeader, mergedReport, exitCode, effects, lastMerge>>

\* one readTextFile is rejected: Promise.all rejects with it, the await of
\* main.ts 257 throws and the catch of main exits
ReadRejected ==
  /\ pc = "read"
  /\ UNCHANGED <<parser, settled>>
  /\ \E i \in 1..Len(reads) :
       /\ reads[i] = "pending"
       /\ reads' = [reads EXCEPT ![i] = "rejected"]
  /\ Fail
  /\ UNCHANGED <<dir, args, inputFileList, inputReports,
                 derivedReferenceHeader, mergedReport, effects, lastMerge>>

\* where the directory holds the file of that name
FileIndex(name) == CHOOSE i \in 1..Len(dir) : dir[i].name = name

\* the array Promise.all resolves to: one Report per listed file, in list order
LoadedReports ==
  [i \in 1..Len(inputFileList) |->
     [data |-> dir[FileIndex(inputFileList[i])].data, pathname |-> inputFileList[i]]]

\* deliberately wrong variant: the name is looked for anywhere in the header line
HasValidHeaderSubstring(report) ==
  Includes(Head(Split(report.data, NL)), checkInDateHeader)

\* deliberately wrong variant: every report that was read is stored
HasValidHeaderAlways(report) == TRUE

\* main.ts 264: only store reports with a valid header
HasValidHeader(report) ==
  ArrayIncludes(Split(Head(Split(report.data, NL)), COMMA), checkInDateHeader)

\* deliberately wrong variant: the run goes on as soon as one read is fulfilled
StoreReportsAfterFirstRead ==
  /\ pc = "read"
  /\ UNCHANGED <<parser, settled>>
  /\ \E i \in 1..Len(reads) : reads[i] = "fulfilled"
  /\ inputReports' = inputReports \o SelectSeq(LoadedReports, HasValidHeader)
  /\ pc' = "sort"
  /\ UNCHANGED <<dir, args, inputFileList, reads, derivedReferenceHeader,
                 mergedReport, exitCode, effects, lastMerge>>

\* deliberately wrong variant: each report is pushed when its own read is fulfilled
StoreReportsInCompletionOrder ==
  /\ pc = "read"
  /\ UNCHANGED <<parser, settled>>
  /\ \A i \in 1..Len(reads) : reads[i] = "fulfilled"
  /\ inputReports' = inputReports
       \o SelectSeq([k \in 1..Len(settled) |-> LoadedReports[settled[k]]], HasValidHeader)
  /\ pc' = "sort"
  /\ UNCHANGED <<dir, args, inputFileList, reads, derivedReferenceHeader,
                 mergedReport, exitCode, effects, lastMerge>>

StoreReports ==
  /\ pc = "read"
  /\ UNCHANGED <<parser, settled>>
  /\ \A i \in 1..Len(reads) : reads[i] = "fulfilled"
  /\ inputReports' = inputReports \o SelectSeq(LoadedReports, HasValidHeader)
  /\ pc' = "sort"
  /\ UNCHANGED <<dir, args, inputFileList, reads, derivedReferenceHeader,
                 mergedReport, exitCode, effects, lastMerge>>

(***************************************************************************)
(* cmdMerge: sort, reference header, translation (main.ts 272-296).        *)
(***************************************************************************)
SortReports ==
  /\ pc = "sort"
  /\ UNCHANGED <<parser, settled>>
  /\ LET sorted == sortReportsByDate(inputReports, checkInDateHeader)
     IN  IF sorted.thrown THEN Fail /\ UNCHANGED inputReports
         ELSE inputReports' = sorted.arr /\ pc' = "derive" /\ UNCHANGED exitCode
  /\ UNCHANGED <<dir, args, inputFileList, reads, derivedReferenceHeader, mergedReport,
                 effects, lastMerge>>

\* deliberately wrong variant: an empty list gives an empty header, no error
DeriveHeaderOfNothing ==
  /\ pc = "derive"
  /\ UNCHANGED <<parser, settled>>
  /\ derivedReferenceHeader' =
       (IF Len(inputReports) = 0 THEN <<>> ELSE Head(Split(inputReports[1].data, NL)))
  /\ pc' = "populate"
  /\ UNCHANGED <<dir, args, inputFileList, reads, inputReports, mergedReport,
                 exitCode, effects, lastMerge>>

\* main.ts 276-288; inputReports[0].data of an empty list raises a TypeError
DeriveHeader ==
  /\ pc = "derive"
  /\ UNCHANGED <<parser, settled>>
  /\ IF Len(inputReports) = 0 THEN Fail /\ UNCHANGED derivedReferenceHeader
     ELSE LET header == Head(Split(inputReports[1].data, NL))
          IN  /\ derivedReferenceHeader' = header
              /\ IF Len(Split(header, COMMA)) = 0 THEN Fail
                 ELSE pc' = "populate" /\ UNCHANGED exitCode
  /\ UNCHANGED <<dir, args, inputFileList, reads, inputReports, mergedReport,
                 effects, lastMerge>>

\* deliberately wrong variant: the run goes on to the write after a row has thrown
PopulateThenWriteAnyway ==
  /\ pc = "populate"
  /\ UNCHANGED <<parser, settled>>
  /\ LET out == populateMergedReport(inputReports,
                                     Split(derivedReferenceHeader, COMMA),
                                     <<derivedReferenceHeader>>)
     IN  mergedReport' = out.merged
  /\ pc' = "write"
  /\ UNCHANGED <<dir, args, inputFileList, reads, inputReports, derivedReferenceHeader,
                 exitCode, effects, lastMerge>>

\* main.ts 291-296
Populate ==
  /\ pc = "populate"
  /\ UNCHANGED <<parser, settled>>
  /\ LET out == populateMergedReport(inputReports,
                                     Split(derivedReferenceHeader, COMMA),
                                     <<derivedReferenceHeader>>)
     IN  /\ mergedReport' = out.merged
         /\ IF out.thrown THEN Fail ELSE pc' = "write" /\ UNCHANGED exitCode
  /\ UNCHANGED <<dir, args, inputFileList, reads, inputReports, derivedReferenceHeader,
                 effects, lastMerge>>

(***************************************************************************)
(* cmdMerge: the write of OUTFILE (main.ts 298-303).                       *)
(***************************************************************************)
HasEntry(name) == \E i \in 1..Len(dir) : dir[i].name = name

\* deliberately wrong variant: the text is added after what the file already holds
WrittenDirsAppending(name, text) ==
  IF HasEntry(name)
  THEN {[i \in 1..Len(dir) |->
          IF dir[i].name = name THEN [dir[i] EXCEPT !.data = @ \o text] ELSE dir[i]]}
  ELSE {SubSeq(dir, 1, p) \o <<[name |-> name, isFile |-> TRUE, data |-> text]>>
          \o SubSeq(dir, p + 1, Len(dir)) : p \in {0, Len(dir)}}

\* the directory after name is written: an existing entry keeps its place, a
\* new entry is listed before or after all the others
WrittenDirs(name, text) ==
  IF HasEntry(name)
  THEN {[i \in 1..Len(dir) |->
          IF dir[i].name = name THEN [dir[i] EXCEPT !.data = text] ELSE dir[i]]}
  ELSE {SubSeq(dir, 1, p) \o <<[name |-> name, isFile |-> TRUE, data |-> text]>>
          \o SubSeq(dir, p + 1, Len(dir)) : p \in {0, Len(dir)}}

\* what a writeTextFile that fails may leave of the text: the file is opened
\* (created, or cut to nothing) and then written, so nothing or a part of it
PartialTexts(text) == {<<>>, SubSeq(text, 1, Len(text) - 1)}

\* the directory after a failed write of name: as it was (the open failed),
\* or with the file holding a part of the text
FailedWriteDirs(name, text) ==
  {dir} \cup UNION {WrittenDirs(name, part) : part \in PartialTexts(text)}

WriteOutput ==
  /\ pc = "write"
  /\ UNCHANGED <<parser, settled>>
  /\ \E written \in BOOLEAN :
       IF ~written
       THEN /\ dir' \in FailedWriteDirs(OUTFILE, Join(mergedReport, NL))
            /\ Fail
            /\ effects' = [effects EXCEPT !.write = "failed"]
            /\ UNCHANGED lastMerge
       ELSE /\ dir' \in WrittenDirs(OUTFILE, Join(mergedReport, NL))
            /\ pc' = "exit"
            /\ exitCode' = 0
            /\ effects' = [effects EXCEPT !.write = "ok"]
            /\ lastMerge' = [done |-> TRUE, files |-> inputFileList,
                             header |-> derivedReferenceHeader]
  /\ UNCHANGED <<args, inputFileList, reads, inputReports,
                 derivedReferenceHeader, mergedReport>>

\* the program is run again, as a new process, on the directory as it now is
RunAgain ==
  /\ pc = "exit"
  /\ UNCHANGED <<parser, settled>>
  /\ pc' = "main"
  /\ args' = NoArgs
  /\ inputFileList' = <<>>
  /\ reads' = <<>>
  /\ inputReports' = <<>>
  /\ derivedReferenceHeader' = <<>>
  /\ mergedReport' = <<>>
  /\ exitCode' = 0
  /\ effects' = NoEffects
  /\ UNCHANGED <<dir, lastMerge>>

Next ==
  \/ ProcessArgs
  \/ ExecuteCommand
  \/ CheckTarget
  \/ ListDir
  \/ ReadFulfilled
  \/ ReadRejected
  \/ StoreReports
  \/ SortReports
  \/ DeriveHeader
  \/ Populate
  \/ WriteOutput
  \/ RunAgain

(***************************************************************************)
(* The directories a run starts from.  Four families, each varying one     *)
(* thing: the first-row dates of up to MaxFiles reports; the raw data text *)
(* of one report beside a fixed one; the headers of two reports; the names *)
(* and kinds of the entries.                                               *)
(***************************************************************************)
Strings(alphabet, n) == UNION {[1..m -> alphabet] : m \in 0..n}

Entry(name, data) == [name |-> name, isFile |-> TRUE, data |-> data]

NameLetters == <<"a", "b", "c", "d", "e", "f">>
FileName(i) == <<NameLetters[i]>> \o CSVEXT

ID == <<"I", "D">>
NAME == <<"N", "m">>
\* a column name that contains the recency column's name without being it
NEARMISS == checkInDateHeader \o <<"s">>

\* report i of the date family: header "Check-In Date,<letter>" and one data
\* row "<date>,v", where the date x does not parse; directories of MaxFiles
\* or MaxFiles - 1 reports take their dates from 1, 2, x, the shorter ones
\* from 1, 2, 3, x
DateChoices(k) == IF k + 1 < MaxFiles THEN {"1", "2", "3", "x"} ELSE {"1", "2", "x"}
DateFileData(i, c) ==
  Join(<<checkInDateHeader, <<NameLetters[i]>>>>, COMMA) \o <<NL, c, COMMA, "v">>

DirsDates ==
  UNION {{[i \in 1..k |-> Entry(FileName(i), DateFileData(i, f[i]))] :
            f \in [1..k -> DateChoices(k)]} : k \in 1..MaxFiles}

\* the row family: a.csv is "ID,Check-In Date" followed by raw text, b.csv is
\* the fixed report ID,Check-In Date,Nm / 2,2,"S,J"
RowChars == {"1", COMMA, QUOTE, NL}
RowPrefixes == {<<>>, <<"1", COMMA>>}
RowTails ==
  {<<>>} \cup {<<NL>> \o p \o raw : p \in RowPrefixes, raw \in Strings(RowChars, MaxLen)}
FixedReport ==
  Join(<<ID, checkInDateHeader, NAME>>, COMMA)
    \o <<NL, "2", COMMA, "2", COMMA, QUOTE, "S", COMMA, "J", QUOTE>>

DirsRows ==
  {<<Entry(FileName(1), Join(<<ID, checkInDateHeader>>, COMMA) \o tail),
     Entry(FileName(2), FixedReport)>> : tail \in RowTails}

\* the header family: two reports with any headers of up to MaxCols columns
\* named Check-In Date or ID, or with a header that holds the near miss
ColNames == {checkInDateHeader, ID}
Headers ==
  UNION {[1..m -> ColNames] : m \in 1..MaxCols} \cup {<<NEARMISS>>, <<NEARMISS, ID>>}
HeaderFileData(header, rows) == Join(<<Join(header, COMMA)>> \o rows, NL)

\* a.csv holds one row and ends with a newline; b.csv holds one row, or two
\* rows with an empty line between them
HeaderRowsB ==
  {<<<<"r", COMMA, "2">>>>, <<<<"r", COMMA, "2">>, <<>>, <<"2", COMMA, "s">>>>}

DirsHeaders ==
  {<<Entry(FileName(1), HeaderFileData(h1, <<<<"1", COMMA, "p">>, <<>>>>)),
     Entry(FileName(2), HeaderFileData(h2, rowsB))>> :
       h1 \in Headers, h2 \in Headers, rowsB \in HeaderRowsB}

\* the name family: any choice, in this listing order, of a report a.csv, a
\* copy of it a.csv.bak, files without the recency column named a.txt, a.CSV
\* and xMERGED.csv, a directory d.csv, and an OUTFILE left by an earlier use
ValidReport == checkInDateHeader \o <<NL, "1">>
OtherData == ID \o <<NL, "7">>
NamedEntries ==
  << Entry(<<"a">> \o CSVEXT, ValidReport),
     Entry(<<"a">> \o CSVEXT \o <<".", "b", "a", "k">>, ValidReport),
     Entry(<<"a", ".", "t", "x", "t">>, OtherData),
     Entry(<<"a", ".", "C", "S", "V">>, OtherData),
     Entry(<<"x">> \o OUTFILE, OtherData),
     [name |-> <<"d">> \o CSVEXT, isFile |-> FALSE, data |-> <<>>],
     Entry(OUTFILE, OtherData) >>

RECURSIVE Pick(_, _)
\* the entries of a sequence whose places are in the set, in order
Pick(entries, places) ==
  IF Len(entries) = 0 THEN <<>>
  ELSE Pick(SubSeq(entries, 1, Len(entries) - 1), places)
         \o (IF Len(entries) \in places THEN <<entries[Len(entries)]>> ELSE <<>>)

DirsNames == {Pick(NamedEntries, places) : places \in SUBSET (1..Len(NamedEntries))}

Init ==
  /\ dir \in DirsDates \cup DirsRows \cup DirsHeaders \cup DirsNames
  /\ pc = "main"
  /\ args = NoArgs
  /\ inputFileList = <<>>
  /\ reads = <<>>
  /\ inputReports = <<>>
  /\ derivedReferenceHeader = <<>>
  /\ mergedReport = <<>>
  /\ exitCode = 0
  /\ effects = NoEffects
  /\ parser = NoCall
  /\ settled = <<>>
  /\ lastMerge = [done |-> FALSE, files |-> <<>>, header |-> <<>>]

Spec == Init /\ [][Next]_vars

(***************************************************************************)
(* splitCSVLine taken alone (main.ts 82-112): one call on a line of up to  *)
(* MaxLine characters, one action per branch of the loop body and one for  *)
(* the return.  i is the 0-based loop index, so char is line[i + 1] here.  *)
(* separators is history: how many times the separator branch was taken.   *)
(***************************************************************************)
MaxLine == 5
LineChars == {"a", COMMA, QUOTE}

mergeVars == <<dir, pc, args, inputFileList, reads, inputReports,
               derivedReferenceHeader, mergedReport, exitCode, effects, lastMerge,
               settled>>

InLoop == ~parser.returned /\ parser.i < Len(parser.line)
char == parser.line[parser.i + 1]
NextIsQuote == parser.i + 2 <= Len(parser.line) /\ parser.line[parser.i + 2] = QUOTE

\* deliberately wrong variant: the doubled quote also ends the quoted mode
EscapedQuoteEndsQuoting ==
  /\ InLoop
  /\ char = QUOTE /\ parser.inQuotes /\ NextIsQuote
  /\ parser' = [parser EXCEPT !.field = Append(@, QUOTE), !.i = @ + 2,
                               !.inQuotes = FALSE]
  /\ UNCHANGED mergeVars

\* main.ts 91-94
EscapedQuote ==
  /\ InLoop
  /\ char = QUOTE /\ parser.inQuotes /\ NextIsQuote
  /\ parser' = [parser EXCEPT !.field = Append(@, QUOTE), !.i = @ + 2]
  /\ UNCHANGED mergeVars

\* main.ts 95-97
ToggleQuote ==
  /\ InLoop
  /\ ~(char = QUOTE /\ parser.inQuotes /\ NextIsQuote)
  /\ char = QUOTE
  /\ parser' = [parser EXCEPT !.inQuotes = ~@, !.i = @ + 1]
  /\ UNCHANGED mergeVars

\* deliberately wrong variant: a comma ends the field in quoted mode too
FieldSeparatorAlsoInQuotes ==
  /\ InLoop
  /\ char = COMMA
  /\ parser' = [parser EXCEPT !.result = Append(@, parser.field), !.field = <<>>,
                               !.i = @ + 1, !.separators = @ + 1]
  /\ UNCHANGED mergeVars

\* main.ts 98-101
FieldSeparator ==
  /\ InLoop
  /\ char # QUOTE
  /\ char = COMMA /\ ~parser.inQuotes
  /\ parser' = [parser EXCEPT !.result = Append(@, parser.field), !.field = <<>>,
                               !.i = @ + 1, !.separators = @ + 1]
  /\ UNCHANGED mergeVars

\* main.ts 102-105
RegularChar ==
  /\ InLoop
  /\ char # QUOTE
  /\ ~(char = COMMA /\ ~parser.inQuotes)
  /\ parser' = [parser EXCEPT !.field = Append(@, char), !.i = @ + 1]
  /\ UNCHANGED mergeVars

\* deliberately wrong variant: the last field is added only when it is not empty
ReturnResultWithoutEmptyField ==
  /\ ~parser.returned
  /\ parser.i >= Len(parser.line)
  /\ parser' = [parser EXCEPT
                  !.result = IF parser.field = <<>> THEN @ ELSE Append(@, parser.field),
                  !.returned = TRUE]
  /\ UNCHANGED mergeVars

\* main.ts 108-111
ReturnResult ==
  /\ ~parser.returned
  /\ parser.i >= Len(parser.line)
  /\ parser' = [parser EXCEPT !.result = Append(@, parser.field), !.returned = TRUE]
  /\ UNCHANGED mergeVars

SplitNext ==
  \/ EscapedQuote
  \/ ToggleQuote
  \/ FieldSeparator
  \/ RegularChar
  \/ ReturnResult

SplitInit ==
  /\ parser \in {[NoCall EXCEPT !.line = l] : l \in Strings(LineChars, MaxLine)}
  /\ dir = <<>>
  /\ pc = "splitCSVLine"
  /\ args = NoArgs
  /\ inputFileList = <<>>
  /\ reads = <<>>
  /\ inputReports = <<>>
  /\ derivedReferenceHeader = <<>>
  /\ mergedReport = <<>>
  /\ exitCode = 0
  /\ effects = NoEffects
  /\ lastMerge = [done |-> FALSE, files |-> <<>>, header |-> <<>>]
  /\ settled = <<>>

\* the loop is synchronous code: it runs on until the function returns
SplitSpec == SplitInit /\ [][SplitNext]_vars /\ WF_vars(SplitNext)

(***************************************************************************)
(* The program with its scheduling.  Once Promise.all has resolved, the    *)
(* rest of cmdMerge runs to its end: the steps from the header filter to   *)
(* the write are taken when they can be (the write call is taken to        *)
(* return, with success or failure).  Nothing makes a read complete, and   *)
(* nothing makes the program be run at all or again.  SortReports and      *)
(* Populate are each the one step from their place and can always be taken *)
(* there, so their weak fairness is written as what it amounts to: the run *)
(* is not at that place for ever.  The directories are those of the name   *)
(* family and the date family's of up to MaxFairFiles reports.             *)
(***************************************************************************)
MaxFairFiles == 2

FairInit ==
  /\ Init
  /\ dir \in DirsNames \cup {d \in DirsDates : Len(d) <= MaxFairFiles}

Fairness ==
  /\ WF_vars(StoreReports)
  /\ []<>(pc # "sort")
  /\ WF_vars(DeriveHeader)
  /\ []<>(pc # "populate")
  /\ WF_vars(WriteOutput)

FairSpec == FairInit /\ [][Next]_vars /\ Fairness

(***************************************************************************)
(* One run with the order of the fulfilled reads noted (main.ts 256-267):  *)
(* the reads of Promise.all are fulfilled in any order, and settled keeps  *)
(* that order.  The directories are those of the header family and the     *)
(* directories of up to MaxReadFiles reports of the date family.           *)
(***************************************************************************)
MaxReadFiles == 3

\* one readTextFile is fulfilled, and its place in the file list is noted
ReadFulfilledNoted ==
  /\ pc = "read"
  /\ UNCHANGED parser
  /\ \E i \in 1..Len(reads) :
       /\ reads[i] = "pending"
       /\ reads' = [reads EXCEPT ![i] = "fulfilled"]
       /\ settled' = Append(settled, i)
  /\ UNCHANGED <<dir, pc, args, inputFileList, inputReports,
                 derivedReferenceHeader, mergedReport, exitCode, effects, lastMerge>>

ReadOrderNext ==
  \/ ProcessArgs
  \/ ExecuteCommand
  \/ CheckTarget
  \/ ListDir
  \/ ReadFulfilledNoted
  \/ ReadRejected
  \/ StoreReports
  \/ SortReports
  \/ DeriveHeader
  \/ Populate
  \/ WriteOutput

ReadOrderInit ==
  /\ Init
  /\ dir \in DirsHeaders \cup {d \in DirsDates : Len(d) <= MaxReadFiles}

ReadOrderSpec == ReadOrderInit /\ [][ReadOrderNext]_vars

(***************************************************************************)
(* Vocabulary of the properties, stated without the program's operators    *)
(* where the property is about what they compute.                          *)
(***************************************************************************)
RECURSIVE Flatten(_)
Flatten(seqs) == IF Len(seqs) = 0 THEN <<>> ELSE Head(seqs) \o Flatten(Tail(seqs))

\* the text before the first newline
HeaderLine(data) ==
  IF \E i \in 1..Len(data) : data[i] = NL
  THEN SubSeq(data, 1, (CHOOSE i \in 1..Len(data) :
                          data[i] = NL /\ \A j \in 1..(i - 1) : data[j] # NL) - 1)
  ELSE data

\* the header line has a comma-delimited token that is exactly the recency name
HasRecencyColumn(data) ==
  LET h == HeaderLine(data)
      n == Len(checkInDateHeader)
  IN  \E i \in 1..(Len(h) - n + 1) :
        /\ SubSeq(h, i, i + n - 1) = checkInDateHeader
        /\ (i = 1 \/ h[i - 1] = COMMA)
        /\ (i + n > Len(h) \/ h[i + n] = COMMA)

\* the number of non-empty lines after the header line
DataLineCount(data) ==
  Cardinality({i \in 2..Len(data) : data[i] # NL /\ data[i - 1] = NL})

\* the non-empty lines after the header line, in order
NonEmptyRows(data) == SelectSeq(Tail(Split(data, NL)), LAMBDA l : l # <<>>)

\* the files of the directory other than the output file, in listing order
Inputs == SelectSeq(dir, LAMBDA e : e.isFile /\ e.name # OUTFILE)
Qualifying == SelectSeq(Inputs, LAMBDA e : HasRecencyColumn(e.data))

\* the run ended with OUTFILE written
Wrote == pc = "exit" /\ exitCode = 0
OutputLines == Split(dir[FileIndex(OUTFILE)].data, NL)

\* the place of a stored report in the directory listing
ListPos(report) == CHOOSE i \in 1..Len(inputFileList) : inputFileList[i] = report.pathname

\* the time read from a report's first data row; NaN when there is none
RecencyTime(data) ==
  LET lines == Split(data, NL)
      loc == IndexOf(Split(Head(lines), COMMA), checkInDateHeader)
  IN  IF Len(lines) < 2 \/ loc = -1 THEN NaN
      ELSE LET fields == splitCSVLine(lines[2])
           IN  IF loc >= Len(fields) THEN NaN
               ELSE DateTime(RemoveQuotes(fields[loc + 1]))

\* the first (1-based) column of that name in a header, 0 when there is none
FirstColumn(headerFields, name) ==
  IF \E i \in 1..Len(headerFields) : headerFields[i] = name
  THEN CHOOSE i \in 1..Len(headerFields) :
         headerFields[i] = name /\ \A j \in 1..(i - 1) : headerFields[j] # name
  ELSE 0

\* for each record of the output, the stored report and the row it comes from
Origins ==
  Flatten([i \in 1..Len(inputReports) |->
             [j \in 1..Len(NonEmptyRows(inputReports[i].data)) |-> <<i, j>>]])
OriginFields(o) == splitCSVLine(NonEmptyRows(inputReports[o[1]].data)[o[2]])
OriginHeader(o) == Split(HeaderLine(inputReports[o[1]].data), COMMA)
ReferenceFields == Split(derivedReferenceHeader, COMMA)

(***************************************************************************)
(* C1.  The first line of the output is the header line of the qualifying  *)
(* report whose first data row holds the most recent parseable Check-In    *)
(* Date, the first such report in listing order on a tie, whatever mix of  *)
(* parseable and unparseable dates the reports hold.                       *)
(***************************************************************************)
MostRecent ==
  CHOOSE i \in 1..Len(Qualifying) :
    /\ ~isNaN(RecencyTime(Qualifying[i].data))
    /\ \A j \in 1..Len(Qualifying) :
         \/ isNaN(RecencyTime(Qualifying[j].data))
         \/ RecencyTime(Qualifying[j].data) < RecencyTime(Qualifying[i].data)
         \/ (RecencyTime(Qualifying[j].data) = RecencyTime(Qualifying[i].data) /\ i <= j)

C1_HeaderOfMostRecent ==
  (Wrote /\ \E i \in 1..Len(Qualifying) : ~isNaN(RecencyTime(Qualifying[i].data)))
    => OutputLines[1] = HeaderLine(Qualifying[MostRecent].data)

(***************************************************************************)
(* C2.  After the header line the output holds the records report by       *)
(* report, in the order of the sorted report list, and inside a report in  *)
(* the order of its data lines: it is the concatenation, over the sorted   *)
(* reports, of each report's translated non-empty rows.                    *)
(***************************************************************************)
TranslatedRows(report) ==
  LET rows == NonEmptyRows(report.data)
      map == TranslationMap(Split(HeaderLine(report.data), COMMA), ReferenceFields)
  IN  [j \in 1..Len(rows) |->
         TranslateFields(splitCSVLine(rows[j]), map, ReferenceFields, 1, <<>>).record]

C2_GroupedInOrder ==
  Wrote => Tail(OutputLines)
             = Flatten([i \in 1..Len(inputReports) |-> TranslatedRows(inputReports[i])])

\* two reports swapped by the sort, the first of them with two rows
C2_Witness ==
  /\ Wrote
  /\ Len(inputReports) = 2
  /\ ListPos(inputReports[1]) > ListPos(inputReports[2])
  /\ Len(NonEmptyRows(inputReports[1].data)) = 2
  /\ Len(OutputLines) = 4

(***************************************************************************)
(* C3.  Every data row of the output splits, quote-aware, into exactly as  *)
(* many fields as the reference schema has.                                *)
(***************************************************************************)
C3_RowsHaveSchemaLength ==
  Wrote => \A p \in 2..Len(OutputLines) :
             Len(splitCSVLine(OutputLines[p])) = Len(ReferenceFields)

(***************************************************************************)
(* C4.  The output has one line more than the qualifying reports have      *)
(* non-empty data lines in total; so N reports of one row each give N + 1  *)
(* lines.                                                                  *)
(***************************************************************************)
DataLineStarts ==
  UNION {{<<i, k>> : k \in {k \in 2..Len(Qualifying[i].data) :
                              /\ Qualifying[i].data[k] # NL
                              /\ Qualifying[i].data[k - 1] = NL}} :
           i \in 1..Len(Qualifying)}

C4_LineCount == Wrote => Len(OutputLines) = 1 + Cardinality(DataLineStarts)

\* two reports with the same header and one row each, one ending in a newline
C4_Witness ==
  /\ Wrote
  /\ Len(Qualifying) = 2
  /\ HeaderLine(Qualifying[1].data) = HeaderLine(Qualifying[2].data)
  /\ \A i \in 1..2 : DataLineCount(Qualifying[i].data) = 1
  /\ Qualifying[1].data[Len(Qualifying[1].data)] = NL
  /\ Len(OutputLines) = 3

(***************************************************************************)
(* C5.  A translated field that contains a comma is written inside one     *)
(* pair of double quotes; a field without a comma is written as it is,     *)
(* with no quotes added, also when it was quoted in the input.             *)
(***************************************************************************)
HasComma(field) == \E i \in 1..Len(field) : field[i] = COMMA
Wrapped(field) == IF HasComma(field) THEN <<QUOTE>> \o field \o <<QUOTE>> ELSE field

\* the record of origin o, each mapped field wrapped by the rule of the claim
WrappedRecord(o) ==
  LET map == TranslationMap(OriginHeader(o), ReferenceFields)
  IN  Flatten([k \in 1..Len(ReferenceFields) |->
                 (IF ReferenceFields[k] \in DOMAIN map
                  THEN Wrapped(OriginFields(o)[map[ReferenceFields[k]] + 1])
                  ELSE <<>>) \o <<COMMA>>])

C5_CommaFieldsQuoted ==
  Wrote => /\ Len(Origins) = Len(OutputLines) - 1
           /\ \A p \in 1..Len(Origins) : OutputLines[p + 1] = WrappedRecord(Origins[p])

\* one written field holds a comma; one row was quoted in the input and its
\* fields hold no comma
C5_Witness ==
  /\ Wrote
  /\ \E p \in 1..Len(Origins) :
       LET map == TranslationMap(OriginHeader(Origins[p]), ReferenceFields)
       IN  \E name \in DOMAIN map : HasComma(OriginFields(Origins[p])[map[name] + 1])
  /\ \E p \in 1..Len(Origins) :
       /\ ArrayIncludes(NonEmptyRows(inputReports[Origins[p][1]].data)[Origins[p][2]], QUOTE)
       /\ \A k \in 1..Len(OriginFields(Origins[p])) : ~HasComma(OriginFields(Origins[p])[k])

(***************************************************************************)
(* C6.  At each reference position an output record carries the row's      *)
(* field from the report's first column of that name, and an empty field   *)
(* when the report's header has no column of that name.                    *)
(***************************************************************************)
NamedRecord(o) ==
  Flatten([k \in 1..Len(ReferenceFields) |->
             (IF FirstColumn(OriginHeader(o), ReferenceFields[k]) = 0 THEN <<>>
              ELSE QuoteField(OriginFields(o)[FirstColumn(OriginHeader(o), ReferenceFields[k])]))
               \o <<COMMA>>])

C6_ColumnsByName ==
  Wrote => /\ Len(Origins) = Len(OutputLines) - 1
           /\ \A p \in 1..Len(Origins) : OutputLines[p + 1] = NamedRecord(Origins[p])

\* a.csv = ID,Check-In Date / 1,1 and b.csv = ID,Check-In Date,Nm / 2,2,"S,J"
C6_Witness ==
  /\ Wrote
  /\ OutputLines = <<Join(<<ID, checkInDateHeader, NAME>>, COMMA),
                     <<"2", COMMA, "2", COMMA, QUOTE, "S", COMMA, "J", QUOTE, COMMA>>,
                     <<"1", COMMA, "1", COMMA, COMMA>>>>

(***************************************************************************)
(* C7.  A file whose first line has no comma-delimited token equal to      *)
(* "Check-In Date" is never stored as a report: the stored reports are     *)
(* exactly the loaded files that have the token, so the sort sees only     *)
(* those, and the reference header is the header of a stored report.       *)
(***************************************************************************)
AfterStore == pc \in {"sort", "derive", "populate", "write"} \/ Wrote
AfterDerive == pc \in {"populate", "write"} \/ Wrote

C7_UnqualifiedNeverStored ==
  /\ \A i \in 1..Len(inputReports) : HasRecencyColumn(inputReports[i].data)
  /\ AfterStore =>
       /\ Len(inputReports) = Len(SelectSeq(LoadedReports, LAMBDA r : HasRecencyColumn(r.data)))
       /\ \A i \in 1..Len(LoadedReports) :
            HasRecencyColumn(LoadedReports[i].data)
              => \E j \in 1..Len(inputReports) : inputReports[j] = LoadedReports[i]
  /\ AfterDerive =>
       \E i \in 1..Len(inputReports) :
         derivedReferenceHeader = HeaderLine(inputReports[i].data)

\* a run that wrote the output from a directory that holds a file whose header
\* contains the name inside a longer token
C7_Witness ==
  /\ Wrote
  /\ Len(inputReports) = 1
  /\ \E i \in 1..Len(Inputs) :
       /\ ~HasRecencyColumn(Inputs[i].data)
       /\ Includes(HeaderLine(Inputs[i].data), checkInDateHeader)

(***************************************************************************)
(* C8.  A run that follows a run that wrote the output, on unchanged       *)
(* inputs, lists the same input files, derives the same reference header   *)
(* and is about to write the header line the earlier run wrote.            *)
(***************************************************************************)
C8_RerunSelectsSame ==
  lastMerge.done =>
    /\ pc \in {"read", "sort", "derive", "populate", "write"}
         => inputFileList = lastMerge.files
    /\ AfterDerive => derivedReferenceHeader = lastMerge.header
    /\ pc = "write" => mergedReport[1] = lastMerge.header

\* the second run is about to write; the first run's output is listed first
C8_Witness ==
  /\ lastMerge.done
  /\ pc = "write"
  /\ Len(inputFileList) >= 2
  /\ dir[1].name = OUTFILE

(***************************************************************************)
(* C9.  After the sort, two reports whose first-row date does not parse    *)
(* are in the order they had in the listing, whatever the other reports.   *)
(***************************************************************************)
AfterSort == pc \in {"derive", "populate", "write"} \/ Wrote
Unparseable(report) == isNaN(RecencyTime(report.data))

AllParse == \A i \in 1..Len(inputReports) : ~Unparseable(inputReports[i])

C10_SortedDescendingStable ==
  (AfterSort /\ AllParse) =>
    /\ \A i, j \in 1..Len(inputReports) :
         i < j => /\ RecencyTime(inputReports[i].data) >= RecencyTime(inputReports[j].data)
                  /\ RecencyTime(inputReports[i].data) = RecencyTime(inputReports[j].data)
                       => ListPos(inputReports[i]) < ListPos(inputReports[j])
    /\ Len(inputReports) = Len(SelectSeq(LoadedReports, HasValidHeader))
    /\ \A i \in 1..Len(LoadedReports) :
         HasValidHeader(LoadedReports[i])
           => \E j \in 1..Len(inputReports) : inputReports[j] = LoadedReports[i]

\* three or more reports, two of them of equal time, the last listed now first
C10_Witness ==
  /\ pc = "derive"
  /\ AllParse
  /\ Len(inputReports) >= 3
  /\ ListPos(inputReports[1]) = Len(inputFileList)
  /\ \E i, j \in 1..Len(inputReports) :
       i < j /\ RecencyTime(inputReports[i].data) = RecencyTime(inputReports[j].data)

(***************************************************************************)
(* C11.  The write of OUTFILE is attempted only when every read is         *)
(* fulfilled, the stored reports have a reference header and every row is  *)
(* translated without error; no other step changes the directory, so a run *)
(* that ends with a fatal error before the write leaves an existing        *)
(* OUTFILE as it was.                                                      *)
(***************************************************************************)
MergeComplete ==
  /\ \A i \in 1..Len(reads) : reads[i] = "fulfilled"
  /\ Len(inputReports) >= 1
  /\ \A i \in 1..Len(inputReports) : HasValidHeader(inputReports[i])
  /\ derivedReferenceHeader = HeaderLine(inputReports[1].data)
  /\ LET out == populateMergedReport(inputReports, ReferenceFields,
                                     <<derivedReferenceHeader>>)
     IN  ~out.thrown /\ mergedReport = out.merged

C11_WriteOnlyAfterMerge ==
  /\ []((pc = "write" \/ effects.write # "none") => MergeComplete)
  /\ [][dir' # dir => (pc = "write" /\ effects'.write # "none")]_vars

\* C11 as stated: the step that ends a run with a fatal error, the failed
\* write included, leaves the directory, and so an existing OUTFILE, as it was
C11_FatalLeavesOutputUnchanged ==
  [][(pc' = "exit" /\ exitCode' = 1) => dir' = dir]_vars

\* a run that ended with a fatal error after its reads had started and before
\* any write, in a directory that holds the OUTFILE of an earlier run
C11_Witness ==
  /\ pc = "exit"
  /\ exitCode = 1
  /\ effects.read
  /\ effects.write = "none"
  /\ lastMerge.done
  /\ HasEntry(OUTFILE)
  /\ Len(dir[FileIndex(OUTFILE)].data) > 0

(***************************************************************************)
(* C12.  A run ends with exit code 0 exactly when its write of OUTFILE     *)
(* succeeded, the directory then holding the merged text; a run that ends  *)
(* on a bad argument, a target that is no directory, a failed listing,     *)
(* read or write, or with no report that has the recency column, ends      *)
(* with exit code 1.                                                       *)
(***************************************************************************)
BadArguments ==
  args.cmd = "" \/ ~isCMD(args.cmd) \/ args.target = "" \/ ~IsDirectory(args.target)

C12_ExitCodes ==
  pc = "exit" =>
    /\ exitCode \in {0, 1}
    /\ exitCode = 0 <=> effects.write = "ok"
    /\ exitCode = 0 =>
         HasEntry(OUTFILE) /\ dir[FileIndex(OUTFILE)].data = Join(mergedReport, NL)
    /\ BadArguments => exitCode = 1
    /\ (effects.listed /\ ~effects.read) => exitCode = 1
    /\ (\E i \in 1..Len(reads) : reads[i] = "rejected") => exitCode = 1
    /\ effects.write = "failed" => exitCode = 1
    /\ (effects.read /\ Len(inputReports) = 0) => exitCode = 1

\* a run over two files that were read and both lack the recency column
C12_Witness ==
  /\ pc = "exit"
  /\ exitCode = 1
  /\ Len(reads) = 2
  /\ \A i \in 1..Len(reads) : reads[i] = "fulfilled"
  /\ Len(inputReports) = 0

(***************************************************************************)
(* C13.  When the directory holds no input file that has the recency       *)
(* column, be it that it holds no input file at all, the run never gets to *)
(* translate or write anything and ends with exit code 1.                  *)
(***************************************************************************)
NoReportQualifies ==
  \A i \in 1..Len(dir) : ~(IsInputFile(dir[i]) /\ HasRecencyColumn(dir[i].data))

C13_NoReportNoOutput ==
  /\ NoReportQualifies =>
       /\ pc \notin {"populate", "write"}
       /\ effects.write = "none"
       /\ pc = "exit" => exitCode = 1
  /\ (pc \in {"populate", "write"} \/ effects.write # "none") => Len(inputReports) >= 1

\* a run that listed a directory with no input file, printed the usage text
\* and ended without reading anything, no OUTFILE being there
C13_Witness ==
  /\ pc = "exit"
  /\ exitCode = 1
  /\ effects.listed
  /\ effects.usage
  /\ ~effects.read
  /\ Len(dir) >= 2
  /\ inputFileList = <<>>
  /\ ~HasEntry(OUTFILE)

(***************************************************************************)
(* C14.  Once the read of one file has failed, whichever other reads are   *)
(* fulfilled or still pending, the run has ended with exit code 1 with no  *)
(* report stored, sorted or translated and with no write of OUTFILE.       *)
(***************************************************************************)
SomeRead(status) == \E i \in 1..Len(reads) : reads[i] = status

C14_FailedReadIsFatal ==
  SomeRead("rejected") =>
    /\ pc = "exit"
    /\ exitCode = 1
    /\ inputReports = <<>>
    /\ derivedReferenceHeader = <<>>
    /\ mergedReport = <<>>
    /\ effects.write = "none"

\* one read failed after another was fulfilled and while a third was pending
C14_Witness ==
  /\ SomeRead("rejected")
  /\ SomeRead("fulfilled")
  /\ SomeRead("pending")

(***************************************************************************)
(* C15.  The header filter, the sort, the translation and the write start  *)
(* only when every read is fulfilled.  While a read is pending the run     *)
(* waits, or it has ended with exit code 1 because another read failed;    *)
(* it never gets to the write.  Once no read is pending the run ends.      *)
(***************************************************************************)
PastReads == pc \in {"sort", "derive", "populate", "write"} \/ effects.write # "none"

C15_WaitsForAllReads ==
  /\ [](PastReads => \A i \in 1..Len(reads) : reads[i] = "fulfilled")
  /\ [](SomeRead("pending") =>
          \/ pc = "read"
          \/ pc = "exit" /\ exitCode = 1 /\ SomeRead("rejected"))
  /\ (pc = "read" /\ ~SomeRead("pending")) ~> (pc = "exit" /\ exitCode \in {0, 1})

\* C15 as stated: a run with a read that has not completed has not exited
C15_PendingReadNeverExits == SomeRead("pending") => pc # "exit"

\* a run that ended while one of its reads was still pending
C15_Witness ==
  /\ pc = "exit"
  /\ exitCode = 1
  /\ SomeRead("pending")
  /\ SomeRead("rejected")
  /\ Len(reads) >= 2

(***************************************************************************)
(* C16.  A run given no command, a command other than "merge", or "merge"  *)
(* with no target lists no directory, reads no file and writes nothing; it *)
(* ends with the usage text printed and exit code 1.                       *)
(***************************************************************************)
ArgumentError == args.cmd # "merge" \/ args.target = ""

C16_ArgumentErrors ==
  (pc # "main" /\ ArgumentError) =>
    /\ pc \in {"executeCommand", "cmdMerge", "exit"}
    /\ ~effects.listed
    /\ ~effects.read
    /\ effects.write = "none"
    /\ inputFileList = <<>> /\ reads = <<>>
    /\ pc = "exit" => (effects.usage /\ exitCode = 1)

\* the merge command given no target: usage printed, exit code 1
C16_Witness ==
  /\ pc = "exit"
  /\ args.cmd = "merge"
  /\ args.target = ""
  /\ effects.usage
  /\ exitCode = 1

(***************************************************************************)
(* C17.  The files a run reads are the regular files of the directory      *)
(* whose name contains ".csv", in listing order, except the file named     *)
(* MERGED.csv; every other such file is read.                              *)
(***************************************************************************)
NameHasCsv(name) == \E i \in 1..(Len(name) - 3) : SubSeq(name, i, i + 3) = CSVEXT
CsvFilesButOutput ==
  SelectSeq(dir, LAMBDA e : e.isFile /\ NameHasCsv(e.name) /\ e.name # OUTFILE)

C17_CandidatesAreCsvFiles ==
  effects.read => inputFileList = [i \in 1..Len(CsvFilesButOutput) |-> CsvFilesButOutput[i].name]

(***************************************************************************)
(* C18.  splitCSVLine returns at least one field, one more than the commas *)
(* it met outside quoted mode; a line that ends with a comma outside       *)
(* quoted mode gives an empty last field, the empty line gives one empty   *)
(* field, and a line without double quotes gives the plain split on commas.*)
(***************************************************************************)
CountOf(c, text) == Cardinality({k \in 1..Len(text) : text[k] = c})
Last(seq) == seq[Len(seq)]

C18_FieldCount ==
  /\ Len(parser.result) = parser.separators + (IF parser.returned THEN 1 ELSE 0)
  /\ parser.separators <= CountOf(COMMA, parser.line)
  /\ parser.returned =>
       /\ Len(parser.result) >= 1
       /\ parser.result = splitCSVLine(parser.line)
       /\ parser.line = <<>> => parser.result = <<<<>>>>
       /\ (parser.line # <<>> /\ Last(parser.line) = COMMA /\ ~parser.inQuotes)
            => Last(parser.result) = <<>>
       /\ CountOf(QUOTE, parser.line) = 0 =>
            /\ parser.result = Split(parser.line, COMMA)
            /\ parser.separators = CountOf(COMMA, parser.line)

\* a returned call on a line with a quoted part that ends with a comma
\* outside quoted mode, two separators met
C18_Witness ==
  /\ parser.returned
  /\ CountOf(QUOTE, parser.line) = 2
  /\ Last(parser.line) = COMMA
  /\ ~parser.inQuotes
  /\ parser.separators = 2
  /\ Last(parser.result) = <<>>

(***************************************************************************)
(* C19.  In quoted mode two double quotes in a row add one double quote to *)
(* the field, take both characters and leave the mode as it is; any other  *)
(* double quote only switches the mode and adds nothing; a comma in quoted *)
(* mode is added to the field and ends nothing.  So a line that is a text  *)
(* with its quotes doubled, inside one pair of quotes, gives that text as  *)
(* its one field.                                                          *)
(***************************************************************************)
RECURSIVE Doubled(_)
Doubled(text) ==
  IF Len(text) = 0 THEN <<>>
  ELSE (IF Head(text) = QUOTE THEN <<QUOTE, QUOTE>> ELSE <<Head(text)>>) \o Doubled(Tail(text))

AtDoubledQuote == InLoop /\ char = QUOTE /\ parser.inQuotes /\ NextIsQuote
AtLoneQuote == InLoop /\ char = QUOTE /\ ~(parser.inQuotes /\ NextIsQuote)
AtQuotedComma == InLoop /\ char = COMMA /\ parser.inQuotes

C19_QuoteRules ==
  /\ [][AtDoubledQuote =>
          parser' = [parser EXCEPT !.field = parser.field \o <<QUOTE>>,
                                   !.i = parser.i + 2]]_vars
  /\ [][AtLoneQuote =>
          parser' = [parser EXCEPT !.inQuotes = ~parser.inQuotes,
                                   !.i = parser.i + 1]]_vars
  /\ [][AtQuotedComma =>
          parser' = [parser EXCEPT !.field = parser.field \o <<COMMA>>,
                                   !.i = parser.i + 1]]_vars
  /\ [](parser.returned =>
          \A text \in Strings(LineChars, MaxLine - 2) :
            parser.line = <<QUOTE>> \o Doubled(text) \o <<QUOTE>>
              => parser.result = <<text>>)

\* the quoted text  ","  with its quote doubled: one field, quote and comma in it
C19_Witness ==
  /\ parser.returned
  /\ parser.line = <<QUOTE, QUOTE, QUOTE, COMMA, QUOTE>>
  /\ parser.result = <<<<QUOTE, COMMA>>>>

(***************************************************************************)
(* C20.  splitCSVLine returns for every line.  It ends in quoted mode      *)
(* exactly on a line with an odd number of double quotes, and then the     *)
(* last field is the text gathered since the last separator, commas        *)
(* included: on a line with one double quote, the fields before the quote  *)
(* are those of the plain split and the rest of the line stays in the last.*)
(***************************************************************************)
QuotePlace(text) == CHOOSE k \in 1..Len(text) : text[k] = QUOTE
BeforeQuote(text) == Split(SubSeq(text, 1, QuotePlace(text) - 1), COMMA)
AfterQuote(text) == SubSeq(text, QuotePlace(text) + 1, Len(text))

C20_AlwaysReturns ==
  /\ <>parser.returned
  /\ [](parser.returned =>
          /\ parser.i = Len(parser.line)
          /\ parser.inQuotes <=> CountOf(QUOTE, parser.line) % 2 = 1
          /\ parser.inQuotes => Last(parser.result) = parser.field
          /\ CountOf(QUOTE, parser.line) = 1 =>
               parser.result =
                 SubSeq(BeforeQuote(parser.line), 1, Len(BeforeQuote(parser.line)) - 1)
                   \o <<Last(BeforeQuote(parser.line)) \o AfterQuote(parser.line)>>)

\* a returned call on a line whose one double quote is followed by a comma
C20_Witness ==
  /\ parser.returned
  /\ parser.inQuotes
  /\ parser.line = <<"a", COMMA, QUOTE, "a", COMMA>>
  /\ parser.result = <<<<"a">>, <<"a", COMMA>>>>

(***************************************************************************)
(* C21.  When the sort compares two stored reports and the recency value   *)
(* of either does not give a valid time (malformed text, empty field, a    *)
(* first data row with too few fields, no line after the header), the      *)
(* comparator returns 0 and does not raise, and the sort does not end the  *)
(* run.                                                                    *)
(***************************************************************************)
C21_InvalidDateComparesEqual ==
  /\ [](pc = "sort" =>
          \A i, j \in 1..Len(inputReports) :
            (i # j /\ (Unparseable(inputReports[i]) \/ Unparseable(inputReports[j])))
              => compareReports(inputReports[i], inputReports[j], checkInDateHeader)
                   = Returned(0))
  /\ [][(pc = "sort" /\ \E i \in 1..Len(inputReports) : Unparseable(inputReports[i]))
          => pc' = "derive"]_vars

(***************************************************************************)
(* C22.  When a name occurs more than once in a report's header, every     *)
(* reference column of that name holds the row's field from the report's   *)
(* first column of that name; when a name occurs more than once in the     *)
(* reference schema, all its places in an output record hold the same      *)
(* field.                                                                  *)
(***************************************************************************)
Duplicated(fields, name) == Cardinality({i \in 1..Len(fields) : fields[i] = name}) > 1
\* the fields read back from the record written for origin number p
OutputFields(p) == splitCSVLine(OutputLines[p + 1])

C22_DuplicateNames ==
  Wrote =>
    \A p \in 1..Len(Origins) : \A k \in 1..Len(ReferenceFields) :
      /\ Duplicated(OriginHeader(Origins[p]), ReferenceFields[k])
           => OutputFields(p)[k]
                = OriginFields(Origins[p])[FirstColumn(OriginHeader(Origins[p]),
                                                       ReferenceFields[k])]
      /\ \A m \in 1..Len(ReferenceFields) :
           (m # k /\ ReferenceFields[m] = ReferenceFields[k])
             => OutputFields(p)[m] = OutputFields(p)[k]

\* the reference header is Check-In Date,Check-In Date; one record comes from
\* a report with that header and a row of two different fields, another from
\* a report that has the name once
C22_Witness ==
  /\ Wrote
  /\ ReferenceFields = <<checkInDateHeader, checkInDateHeader>>
  /\ \E p \in 1..Len(Origins) :
       /\ Duplicated(OriginHeader(Origins[p]), checkInDateHeader)
       /\ OriginFields(Origins[p])[1] # OriginFields(Origins[p])[2]
       /\ OutputFields(p) = <<OriginFields(Origins[p])[1], OriginFields(Origins[p])[1], <<>>>>
  /\ \E p \in 1..Len(Origins) :
       /\ OriginHeader(Origins[p]) = <<checkInDateHeader, ID>>
       /\ OutputFields(p) = <<OriginFields(Origins[p])[1], OriginFields(Origins[p])[1], <<>>>>

(***************************************************************************)
(* C23.  The translation ends the run exactly when some non-empty data row *)
(* of a stored report has fewer fields than a column the report's          *)
(* translation map points at; otherwise every non-empty data row, whatever *)
(* its quoting or content, gives one output record and the run reaches the *)
(* write.                                                                  *)
(***************************************************************************)
\* the (1-based) source columns the reference schema reads from a report
NeededColumns(report) ==
  {FirstColumn(Split(HeaderLine(report.data), COMMA), ReferenceFields[k]) :
     k \in 1..Len(ReferenceFields)}
ShortRow(report, row) == \E c \in NeededColumns(report) : c > Len(splitCSVLine(row))
SomeShortRow ==
  \E i \in 1..Len(inputReports) : \E j \in 1..Len(NonEmptyRows(inputReports[i].data)) :
    ShortRow(inputReports[i], NonEmptyRows(inputReports[i].data)[j])

C23_OnlyShortRowsAbort ==
  [][pc = "populate" =>
       /\ pc' = "exit" <=> SomeShortRow
       /\ pc' = "write" <=> ~SomeShortRow
       /\ pc' = "write" => Len(mergedReport') = 1 + Len(Origins)]_vars

\* the translation ended the run at a short row after it had translated a row
C23_Witness ==
  /\ pc = "exit" /\ exitCode = 1
  /\ derivedReferenceHeader # <<>>
  /\ effects.write = "none"
  /\ Len(mergedReport) = 2
  /\ SomeShortRow

(***************************************************************************)
(* C24.  A run writes at most once, and only MERGED.csv: every step leaves *)
(* all other entries of the directory as they were, in every run, failed   *)
(* or not; the directory changes only at the one write of the run; and a   *)
(* write that succeeds leaves one MERGED.csv whose whole content is the    *)
(* header line and the translated records joined by newlines.              *)
(***************************************************************************)
Others(d) == SelectSeq(d, LAMBDA e : e.name # OUTFILE)
OutputEntries(d) == SelectSeq(d, LAMBDA e : e.name = OUTFILE)

C24_OnlyOutputWritten ==
  [][/\ Others(dir') = Others(dir)
     /\ dir' # dir =>
          pc = "write" /\ effects.write = "none" /\ effects'.write # "none" /\ pc' = "exit"
     /\ effects'.write # effects.write =>
          (pc = "write" /\ effects.write = "none") \/ effects'.write = "none"
     /\ (pc = "write" /\ effects'.write = "ok") =>
          /\ Len(OutputEntries(dir')) = 1
          /\ OutputEntries(dir')[1].data = Join(mergedReport, NL)
          /\ OutputEntries(dir')[1].isFile]_vars

\* a MERGED.csv left by an earlier use was replaced, among the six other
\* entries of the name family, which are as they were
C24_Witness ==
  /\ Wrote
  /\ effects.write = "ok"
  /\ Len(dir) = Len(NamedEntries)
  /\ Others(dir) = Others(NamedEntries)
  /\ dir[Len(dir)].name = OUTFILE
  /\ dir[Len(dir)].data = Join(mergedReport, NL)
  /\ dir[Len(dir)].data # OtherData

(***************************************************************************)
(* C25.  The stored reports before the sort, and the text of the output,   *)
(* are given by the directory listing and the file contents alone: in      *)
(* whatever order the parallel reads are fulfilled, the stored reports are *)
(* the listed files that qualify, in listing order, and the output is the  *)
(* merge of that list.                                                     *)
(***************************************************************************)
\* the reports of the listed input files that qualify, in listing order
ListedReports ==
  LET files == SelectSeq(dir, LAMBDA e : IsInputFile(e) /\ HasRecencyColumn(e.data))
  IN  [i \in 1..Len(files) |-> [data |-> files[i].data, pathname |-> files[i].name]]

\* the lines the program makes of a list of reports
MergeOf(reports) ==
  LET sorted == sortReportsByDate(reports, checkInDateHeader).arr
      header == HeaderLine(sorted[1].data)
  IN  populateMergedReport(sorted, Split(header, COMMA), <<header>>).merged

C25_ReadOrderIrrelevant ==
  /\ pc = "sort" => inputReports = ListedReports
  /\ pc = "write" => mergedReport = MergeOf(ListedReports)
  /\ Wrote => dir[FileIndex(OUTFILE)].data = Join(MergeOf(ListedReports), NL)

\* three reports stored in listing order after the third read was fulfilled
\* first and the first read last
C25_Witness ==
  /\ pc = "sort"
  /\ settled = <<3, 2, 1>>
  /\ Len(inputReports) = 3
  /\ \A i \in 1..3 : inputReports[i].pathname = dir[i].name

(***************************************************************************)
(* C26.  When none of the fields a record is made of holds a double quote, *)
(* splitCSVLine reads the record back as those fields in the order of the  *)
(* reference schema, an empty field where the report has no such column,   *)
(* followed by one more, empty, field: the one after the last comma.       *)
(***************************************************************************)
\* the source fields of the record of origin o, one per reference column
MappedFields(o) ==
  [k \in 1..Len(ReferenceFields) |->
     IF FirstColumn(OriginHeader(o), ReferenceFields[k]) = 0 THEN <<>>
     ELSE OriginFields(o)[FirstColumn(OriginHeader(o), ReferenceFields[k])]]
NoQuoteIn(fields) == \A k \in 1..Len(fields) : ~ArrayIncludes(fields[k], QUOTE)

C26_RecordsReadBack ==
  Wrote => \A p \in 1..Len(Origins) :
             NoQuoteIn(MappedFields(Origins[p]))
               => OutputFields(p) = Append(MappedFields(Origins[p]), <<>>)

\* a record with a field that holds a comma, and a record with an empty place
\* for a column its report does not have, are read back as their fields and a
\* last empty one
C26_Witness ==
  /\ Wrote
  /\ \E p \in 1..Len(Origins) :
       /\ NoQuoteIn(MappedFields(Origins[p]))
       /\ \E k \in 1..Len(ReferenceFields) : HasComma(MappedFields(Origins[p])[k])
       /\ OutputFields(p) = Append(MappedFields(Origins[p]), <<>>)
  /\ \E p \in 1..Len(Origins) :
       /\ NoQuoteIn(MappedFields(Origins[p]))
       /\ \E k \in 1..Len(ReferenceFields) :
            FirstColumn(OriginHeader(Origins[p]), ReferenceFields[k]) = 0
       /\ OutputFields(p) = Append(MappedFields(Origins[p]), <<>>)
       /\ Len(OutputFields(p)) = Len(ReferenceFields) + 1

(***************************************************************************)
(* C27.  In every run that reaches the write, the reference schema has at  *)
(* least one field and one of its fields is the name Check-In Date; and    *)
(* once a report is stored the step that derives the reference header      *)
(* never fails, so the failure "Could not determine reference header       *)
(* fields" ends no run.                                                    *)
(***************************************************************************)
C27_ReferenceSchemaNotEmpty ==
  /\ []((pc = "write" \/ effects.write # "none") =>
          /\ Len(ReferenceFields) >= 1
          /\ \E k \in 1..Len(ReferenceFields) : ReferenceFields[k] = checkInDateHeader)
  /\ [][(pc = "derive" /\ Len(inputReports) > 0) => pc' = "populate"]_vars

\* the write is reached with a reference schema of one field, after a file
\* that was read was not stored
C27_Witness ==
  /\ pc = "write"
  /\ Len(inputReports) < Len(inputFileList)
  /\ ReferenceFields = <<checkInDateHeader>>

====
